---- MODULE Spec2Model ----
(***************************************************************************)
(* Callback / task-token pattern: the create-job lambda, the simulated     *)
(* external API (createJob, checkStatus) and the poller lambda, with the   *)
(* two DynamoDB tables (poc-jobs, poc-task-tokens) and the Step Functions  *)
(* resume API (SendTaskSuccess / SendTaskFailure) they talk to.            *)
(*                                                                         *)
(* Every DynamoDB command and every Step Functions call is one atomic      *)
(* step; the code between two awaited commands is local to the invocation  *)
(* and is folded into the step that precedes it.                           *)
(***************************************************************************)
EXTENDS Integers, Sequences, FiniteSets, TLC

\* ---------------------------------------------------------------- bounds
MaxJobs == 2            \* CreateJob invocations explored when polls run one at a time
NumPollers == 2         \* poller lambda instances that may run at once
MaxPolls == 3           \* Poll invocations explored when polls may overlap or throw
MaxSeqPolls == 5        \* Poll invocations explored when polls run one at a time
MaxPairPolls == 2        \* Poll invocations explored when two jobs are polled at once
MaxAttemptsBound == 3   \* largest pollingConfig.maxAttempts explored
MaxApiCalls == 4        \* direct invocations of the simulated API explored
MaxUploads == 2         \* POST /initiate requests that store an upload record
MaxRecords == 2         \* records in one S3 event

JobIds == 1..MaxJobs
Pollers == 1..NumPollers
MaxAttemptsChoices == 1..MaxAttemptsBound

\* Math.floor(Math.random() * 2) + 2
CompletionPollsChoices == {2, 3}

TerminalStatuses == {"COMPLETED", "FAILED", "MAX_ATTEMPTS", "TIMEOUT"}

VARIABLES
  jobs,        \* table poc-jobs: jobId -> [status, pollCount, completionPolls]
  tokens,      \* table poc-task-tokens: jobId -> [taskToken, attemptCount, maxAttempts, status]
  sfnCalls,    \* SendTaskSuccess / SendTaskFailure commands sent so far, in order
  creator,     \* the create-job lambda invocation in flight
  poller,      \* per poller instance: position, event.jobId and locals
  resp,        \* per poller instance: what its last invocation returned
  nPolls,      \* history: Poll invocations that found a token record, per jobId
  nGate,       \* history: Poll invocations that found status POLLING, per jobId
  nCheck,      \* history: checkStatus calls started, per jobId
  api,         \* the simulated API invocation made directly (not by a lambda of the workflow)
  uploads,     \* table poc-file-uploads: uploadId -> [uploadId, status, filename]
  s3ev,        \* the upload-complete lambda invocation in flight and its S3 event
  http         \* the last answer of the upload API (POST /initiate, GET /status/:uploadId)

\* The upload pipeline's state.
uploadVars == <<uploads, s3ev, http>>

vars == <<jobs, tokens, sfnCalls, creator, poller, resp, nPolls, nGate, nCheck, api, uploadVars>>

\* ---------------------------------------------------------------- helpers
Put_Replace(table, key, item) == [k \in {key} |-> item]

Put(table, key, item) ==
  [k \in (DOMAIN table) \cup {key} |-> IF k = key THEN item ELSE table[k]]

NoResponse == [status |-> "NONE"]
Thrown == [status |-> "THROWN"]

\* jobData.jobId of an answer that carries none (an ErrorResponse).
Undefined == 0

IdleCreator ==
  [pc |-> "idle", jobId |-> Undefined, taskToken |-> "", maxAttempts |-> 0,
   resp |-> NoResponse]

IdlePoller ==
  [pc |-> "idle", jobId |-> 0, taskToken |-> "", newAttemptCount |-> 0,
   maxAttempts |-> 0, newPollCount |-> 0, completionPolls |-> 0, jobStatus |-> ""]

\* The handler is between its first command and its return.
Active(p) == poller[p].pc \notin {"idle", "returned"}
ActiveOn(j) == {p \in Pollers : Active(p) /\ poller[p].jobId = j}

\* The handler returns r (or rethrows): only event.jobId outlives the locals.
Return(p, j, r) ==
  /\ poller' = [poller EXCEPT ![p] = [IdlePoller EXCEPT !.pc = "returned", !.jobId = j]]
  /\ resp' = [resp EXCEPT ![p] = r]

RECURSIVE SumOver(_, _)
SumOver(f, S) ==
  IF S = {} THEN 0
  ELSE LET x == CHOOSE y \in S : TRUE IN f[x] + SumOver(f, S \ {x})

PollsStarted == SumOver(nPolls, JobIds)

Goto(p, label) == poller' = [poller EXCEPT ![p].pc = label]

\* No direct invocation of the simulated API is in flight; n counts those made.
IdleApi ==
  [pc |-> "idle", action |-> "", jobId |-> Undefined, newPollCount |-> 0,
   completionPolls |-> 0, answer |-> NoResponse, n |-> 0]

\* No upload-complete invocation is in flight. keys are the object keys the
\* event is about, Records the keys as the event carries them, outcome what
\* became of each record handled so far.
IdleS3 ==
  [pc |-> "idle", keys |-> << >>, Records |-> << >>, i |-> 0, uploadId |-> "",
   outcome |-> << >>]

\* The upload API has not answered a request.
NoHttp == [route |-> "", uploadId |-> "", statusCode |-> 0, error |-> "", status |-> ""]

\* ---------------------------------------------------------------- init
Init ==
  /\ jobs = [j \in {} |-> 0]
  /\ tokens = [j \in {} |-> 0]
  /\ sfnCalls = << >>
  /\ creator = IdleCreator
  /\ poller = [p \in Pollers |-> IdlePoller]
  /\ resp = [p \in Pollers |-> NoResponse]
  /\ nPolls = [j \in JobIds |-> 0]
  /\ nGate = [j \in JobIds |-> 0]
  /\ nCheck = [j \in JobIds |-> 0]
  /\ api = IdleApi
  /\ uploads = [u \in {} |-> 0]
  /\ s3ev = IdleS3
  /\ http = NoHttp

\* ---------------------------------------------------------------- create-job
\* The item createJob puts in poc-jobs.
JobItem_OffByOne(completionPolls) ==
  [status |-> "IN_PROGRESS", pollCount |-> 0, completionPolls |-> completionPolls + 1]

JobItem(completionPolls) ==
  [status |-> "IN_PROGRESS", pollCount |-> 0, completionPolls |-> completionPolls]

\* jobData.jobId as the create-job handler reads it from the simulated API's
\* answer: createJob returns its newJobId after the awaited PutItem; when the
\* PutItem rejects, the API handler's catch answers { error } and there is no
\* jobId.
CreateJobAnswer_NoAwait(newJobId, stored) == newJobId

CreateJobAnswer(newJobId, stored) == IF stored THEN newJobId ELSE Undefined

\* The jobId createJob generates: fresh, here the lowest unused one.
NewJobId == CHOOSE j \in JobIds : j \notin DOMAIN jobs /\ \A k \in JobIds : k < j => k \in DOMAIN jobs

\* create-job handler up to the simulated API's PutItem: a fresh jobId and a
\* random completion threshold are stored with status IN_PROGRESS, pollCount 0.
CreateJobInvokeApi(cp) ==
  /\ creator.pc = "idle"
  /\ \E j \in JobIds :
       /\ j \notin DOMAIN jobs
       /\ \A k \in JobIds : k < j => k \in DOMAIN jobs
       /\ jobs' = Put(jobs, j, JobItem(cp))
       /\ creator' = [IdleCreator EXCEPT !.pc = "saveToken", !.jobId = CreateJobAnswer(j, TRUE)]
  /\ UNCHANGED <<tokens, sfnCalls, poller, resp, nPolls, nGate, nCheck, api, uploadVars>>

\* The same with poc-jobs unavailable: createJob's PutItem rejects, nothing is
\* stored, the API handler catches and answers { error: message }.
CreateJobApiFails ==
  /\ creator.pc = "idle"
  /\ \E j \in JobIds : j \notin DOMAIN jobs
  /\ creator' = [IdleCreator EXCEPT !.pc = "saveToken", !.jobId = CreateJobAnswer(NewJobId, FALSE)]
  /\ UNCHANGED <<jobs, tokens, sfnCalls, poller, resp, nPolls, nGate, nCheck, api, uploadVars>>

\* The token Step Functions hands to the n-th execution ($$.Task.Token): one
\* per execution, never reused.
TaskTokenOf(n) ==
  IF n \in 1..4 THEN <<"tok-a", "tok-b", "tok-c", "tok-d">>[n] ELSE "tok-x"

\* The item the create-job handler puts in poc-task-tokens.
TokenItem_DefaultMax(taskToken, maxAttempts) ==
  [taskToken |-> taskToken, attemptCount |-> 0, maxAttempts |-> 10, status |-> "POLLING"]

TokenItem(taskToken, maxAttempts) ==
  [taskToken |-> taskToken, attemptCount |-> 0, maxAttempts |-> maxAttempts,
   status |-> "POLLING"]

\* What the create-job invocation ends with, given whether its PutItem of the
\* token record went through: the success response, or the rejection rethrown
\* (the handler has no try/catch).
CreateJobResponse_Swallowed(jobId, tokenStored) == [jobId |-> jobId, status |-> "POLLING"]

CreateJobResponse(jobId, tokenStored) ==
  IF tokenStored THEN [jobId |-> jobId, status |-> "POLLING"] ELSE Thrown

\* create-job handler, step 2: PutItem of the task token record, then return.
\* event.taskToken and event.pollingConfig.maxAttempts are drawn here, where
\* the handler first uses them. A PutItem whose key attribute jobId is
\* undefined is rejected (by the SDK's serializer or by DynamoDB's key
\* validation), so nothing is stored under an undefined jobId.
CreateJobSaveToken(taskToken, maxAttempts) ==
  /\ creator.pc = "saveToken"
  /\ IF creator.jobId = Undefined
       THEN /\ UNCHANGED tokens
            /\ creator' = [creator EXCEPT !.pc = "returned", !.taskToken = taskToken,
                              !.maxAttempts = maxAttempts,
                              !.resp = CreateJobResponse(creator.jobId, FALSE)]
       ELSE /\ tokens' = Put(tokens, creator.jobId, TokenItem(taskToken, maxAttempts))
            /\ creator' = [creator EXCEPT !.pc = "returned", !.taskToken = taskToken,
                              !.maxAttempts = maxAttempts,
                              !.resp = CreateJobResponse(creator.jobId, TRUE)]
  /\ UNCHANGED <<jobs, sfnCalls, poller, resp, nPolls, nGate, nCheck, api, uploadVars>>

\* create-job handler, step 2 with poc-task-tokens unavailable: the PutItem
\* rejects and the invocation ends with that error.
CreateJobThrow ==
  /\ creator.pc = "saveToken"
  /\ creator' = [creator EXCEPT !.pc = "returned",
                    !.resp = CreateJobResponse(creator.jobId, FALSE)]
  /\ UNCHANGED <<jobs, tokens, sfnCalls, poller, resp, nPolls, nGate, nCheck, api, uploadVars>>

\* The orchestrator has the create-job response; the next execution may call
\* the lambda.
CreatorExit ==
  /\ creator.pc = "returned"
  /\ creator' = IdleCreator
  /\ UNCHANGED <<jobs, tokens, sfnCalls, poller, resp, nPolls, nGate, nCheck, api, uploadVars>>

\* ---------------------------------------------------------------- poller
\* The idempotency gate's test (poller handler, step 2).
AlreadyProcessed_OnlyCompleted(currentStatus) == currentStatus = "COMPLETED"

AlreadyProcessed_RetriesUnnotified(currentStatus) ==
  currentStatus \notin {"POLLING", "MAX_ATTEMPTS"}

AlreadyProcessed(currentStatus) == currentStatus # "POLLING"

\* Response of step 1 when GetItem finds no token record.
TokenNotFoundResponse_InProgress == [status |-> "IN_PROGRESS"]

TokenNotFoundResponse == [status |-> "ERROR", error |-> "Token not found"]

\* Response of the idempotency gate.
GateResponse_Renamed(currentStatus) == [status |-> "ALREADY_PROCESSED"]

GateResponse(currentStatus) == [status |-> currentStatus]

\* poller handler, steps 1 and 2: GetItem of the token record; no item gives
\* the error response, a status other than POLLING gives the stored status.
PollGetToken(p, j) ==
  /\ p \in Pollers
  /\ poller[p].pc = "idle"
  /\ IF j \notin DOMAIN tokens
       THEN /\ Return(p, j, TokenNotFoundResponse)
            /\ UNCHANGED <<nPolls, nGate>>
       ELSE IF AlreadyProcessed(tokens[j].status)
         THEN /\ Return(p, j, GateResponse(tokens[j].status))
              /\ nPolls' = [nPolls EXCEPT ![j] = @ + 1]
              /\ UNCHANGED nGate
         ELSE /\ nPolls' = [nPolls EXCEPT ![j] = @ + 1]
              /\ poller' = [poller EXCEPT ![p] =
                   [IdlePoller EXCEPT !.pc = "increment", !.jobId = j,
                      !.taskToken = tokens[j].taskToken,
                      !.newAttemptCount = tokens[j].attemptCount + 1,
                      !.maxAttempts = tokens[j].maxAttempts]]
              /\ nGate' = [nGate EXCEPT ![j] = @ + 1]
              /\ UNCHANGED resp
  /\ UNCHANGED <<jobs, tokens, sfnCalls, creator, nCheck, api, uploadVars>>

\* Step 4's test, evaluated on the locals right after the increment.
AfterIncrement_AtLimit(newAttemptCount, maxAttempts) ==
  IF newAttemptCount >= maxAttempts THEN "maxAttempts" ELSE "checkStatus"

AfterIncrement_NeverStops(newAttemptCount, maxAttempts) == "checkStatus"

AfterIncrement(newAttemptCount, maxAttempts) ==
  IF newAttemptCount > maxAttempts THEN "maxAttempts" ELSE "checkStatus"

\* poller handler, step 3: UpdateItem SET attemptCount = :count, no condition.
PollIncrement_Deferred(p) ==
  /\ poller[p].pc = "increment"
  /\ Goto(p, AfterIncrement(poller[p].newAttemptCount, poller[p].maxAttempts))
  /\ UNCHANGED <<jobs, tokens, sfnCalls, creator, resp, nPolls, nGate, nCheck, api, uploadVars>>

PollIncrement(p) ==
  /\ poller[p].pc = "increment"
  /\ tokens' = [tokens EXCEPT ![poller[p].jobId].attemptCount = poller[p].newAttemptCount]
  /\ Goto(p, AfterIncrement(poller[p].newAttemptCount, poller[p].maxAttempts))
  /\ UNCHANGED <<jobs, sfnCalls, creator, resp, nPolls, nGate, nCheck, api, uploadVars>>

\* updateStatus: UpdateItem SET status = :status, completedAt = :time, no condition.
updateStatus_OnlyCompletedAt(jobId, status) ==
  tokens' = tokens

updateStatus_EveryToken(jobId, status) ==
  tokens' = [j \in DOMAIN tokens |-> [tokens[j] EXCEPT !.status = status]]

updateStatus_Timeout(jobId, status) ==
  tokens' = [tokens EXCEPT ![jobId].status =
               IF status = "MAX_ATTEMPTS" THEN "TIMEOUT" ELSE status]

updateStatus(jobId, status) ==
  tokens' = [tokens EXCEPT ![jobId].status = status]

\* poller handler, step 4: the token is marked MAX_ATTEMPTS.
PollMaxAttempts(p) ==
  /\ poller[p].pc = "maxAttempts"
  /\ updateStatus(poller[p].jobId, "MAX_ATTEMPTS")
  /\ Goto(p, "sendMaxAttempts")
  /\ UNCHANGED <<jobs, sfnCalls, creator, resp, nPolls, nGate, nCheck, api, uploadVars>>

SendTaskFailure(taskToken, error) ==
  [command |-> "SendTaskFailure", taskToken |-> taskToken, error |-> error, attempts |-> 0]

SendTaskSuccess_ExecutionId(taskToken, attempts) ==
  [command |-> "SendTaskSuccess", taskToken |-> "exec-1", error |-> "", attempts |-> attempts]

SendTaskSuccess(taskToken, attempts) ==
  [command |-> "SendTaskSuccess", taskToken |-> taskToken, error |-> "", attempts |-> attempts]

\* poller handler, step 4: SendTaskFailure(MaxAttemptsExceeded), then return.
PollSendMaxAttempts(p) ==
  /\ poller[p].pc = "sendMaxAttempts"
  /\ sfnCalls' = Append(sfnCalls, SendTaskFailure(poller[p].taskToken, "MaxAttemptsExceeded"))
  /\ Return(p, poller[p].jobId, [status |-> "MAX_ATTEMPTS"])
  /\ UNCHANGED <<jobs, tokens, creator, nPolls, nGate, nCheck, api, uploadVars>>

\* Step 6 of the poller on the status the simulated API answered: where the
\* handler goes next ("return" when it returns without a further command).
ActOnStatus_FailedIgnored(jobStatus) ==
  IF jobStatus = "COMPLETED" THEN "markCompleted" ELSE "return"

ActOnStatus_ErrorFails(jobStatus) ==
  IF jobStatus = "COMPLETED" THEN "markCompleted"
  ELSE IF jobStatus \notin {"IN_PROGRESS", "COMPLETED"} THEN "markFailed"
  ELSE "return"

ActOnStatus(jobStatus) ==
  IF jobStatus = "COMPLETED" THEN "markCompleted"
  ELSE IF jobStatus = "FAILED" THEN "markFailed"
  ELSE "return"

InProgressResponse_CurrentAttempts(newAttemptCount, maxAttempts) ==
  [status |-> "IN_PROGRESS", attempt |-> newAttemptCount - 1, maxAttempts |-> maxAttempts]

InProgressResponse_DefaultMax(newAttemptCount, maxAttempts) ==
  [status |-> "IN_PROGRESS", attempt |-> newAttemptCount, maxAttempts |-> 10]

InProgressResponse(newAttemptCount, maxAttempts) ==
  [status |-> "IN_PROGRESS", attempt |-> newAttemptCount, maxAttempts |-> maxAttempts]

\* The poller receives the simulated API's answer (Invoke returns) and acts
\* on it up to its next command.
PollReceive(p, jobStatus) ==
  IF ActOnStatus(jobStatus) = "return"
    THEN /\ poller' = [poller EXCEPT ![p] =
              [IdlePoller EXCEPT !.pc = "returned", !.jobId = poller[p].jobId,
                                 !.jobStatus = jobStatus]]
         /\ resp' = [resp EXCEPT ![p] =
              InProgressResponse(poller[p].newAttemptCount, poller[p].maxAttempts)]
    ELSE /\ poller' = [poller EXCEPT ![p].pc = ActOnStatus(jobStatus),
                                      ![p].jobStatus = jobStatus]
         /\ UNCHANGED resp

\* What JSON.parse gives the poller when the simulated API answered
\* { error: message }: an object without a status.
ErrorAnswer(message) == "ERROR:" \o message

\* Status checkStatus computes from the new poll count.
StatusFor_PastThreshold(newPollCount, completionPolls) ==
  IF newPollCount > completionPolls THEN "COMPLETED" ELSE "IN_PROGRESS"

StatusFor(newPollCount, completionPolls) ==
  IF newPollCount >= completionPolls THEN "COMPLETED" ELSE "IN_PROGRESS"

\* poller step 5 / checkStatus: GetItem of the job; no item answers
\* { error: 'Job not found' }, which carries no status.
CheckStatusGet(p) ==
  /\ poller[p].pc = "checkStatus"
  /\ nCheck' = [nCheck EXCEPT ![poller[p].jobId] = @ + 1]
  /\ IF poller[p].jobId \notin DOMAIN jobs
       THEN PollReceive(p, ErrorAnswer("Job not found"))
       ELSE /\ poller' = [poller EXCEPT ![p].pc = "updatePollCount",
                 ![p].newPollCount = jobs[poller[p].jobId].pollCount + 1,
                 ![p].completionPolls = jobs[poller[p].jobId].completionPolls]
            /\ UNCHANGED resp
  /\ UNCHANGED <<jobs, tokens, sfnCalls, creator, nPolls, nGate, api, uploadVars>>

\* The job item after checkStatus's UpdateItem SET pollCount = :count: the
\* other attributes are left as stored.
SetPollCount_PutItem(job, count) ==
  [status |-> "IN_PROGRESS", pollCount |-> count, completionPolls |-> job.completionPolls]

SetPollCount_Saturating(job, count) ==
  [job EXCEPT !.pollCount = IF count > job.completionPolls THEN job.completionPolls ELSE count]

SetPollCount_OnlyBelowThreshold(job, count) ==
  IF count >= job.completionPolls THEN job ELSE [job EXCEPT !.pollCount = count]

SetPollCount(job, count) == [job EXCEPT !.pollCount = count]

\* checkStatus: UpdateItem SET pollCount = :count; below the threshold the
\* call returns IN_PROGRESS to the poller.
CheckStatusUpdatePollCount(p) ==
  /\ poller[p].pc = "updatePollCount"
  /\ jobs' = [jobs EXCEPT ![poller[p].jobId] = SetPollCount(@, poller[p].newPollCount)]
  /\ IF StatusFor(poller[p].newPollCount, poller[p].completionPolls) = "COMPLETED"
       THEN /\ Goto(p, "markJobCompleted")
            /\ UNCHANGED resp
       ELSE PollReceive(p, "IN_PROGRESS")
  /\ UNCHANGED <<tokens, sfnCalls, creator, nPolls, nGate, nCheck, api, uploadVars>>

\* checkStatus: UpdateItem SET status = COMPLETED, then return COMPLETED.
CheckStatusMarkCompleted_AnswerOnly(p) ==
  /\ poller[p].pc = "markJobCompleted"
  /\ PollReceive(p, "COMPLETED")
  /\ UNCHANGED <<jobs, tokens, sfnCalls, creator, nPolls, nGate, nCheck, api, uploadVars>>

CheckStatusMarkCompleted(p) ==
  /\ poller[p].pc = "markJobCompleted"
  /\ jobs' = [jobs EXCEPT ![poller[p].jobId].status = "COMPLETED"]
  /\ PollReceive(p, "COMPLETED")
  /\ UNCHANGED <<tokens, sfnCalls, creator, nPolls, nGate, nCheck, api, uploadVars>>

\* checkStatus with poc-jobs unavailable: its GetItem or one of its
\* UpdateItems rejects, the API handler's catch answers { error: message }.
CheckStatusFails_ReportsFailed(p) ==
  /\ poller[p].pc \in {"checkStatus", "updatePollCount", "markJobCompleted"}
  /\ nCheck' = [nCheck EXCEPT ![poller[p].jobId] =
                  IF poller[p].pc = "checkStatus" THEN @ + 1 ELSE @]
  /\ PollReceive(p, "FAILED")
  /\ UNCHANGED <<jobs, tokens, sfnCalls, creator, nPolls, nGate, api, uploadVars>>

CheckStatusFails(p) ==
  /\ poller[p].pc \in {"checkStatus", "updatePollCount", "markJobCompleted"}
  /\ nCheck' = [nCheck EXCEPT ![poller[p].jobId] =
                  IF poller[p].pc = "checkStatus" THEN @ + 1 ELSE @]
  /\ PollReceive(p, ErrorAnswer("store"))
  /\ UNCHANGED <<jobs, tokens, sfnCalls, creator, nPolls, nGate, api, uploadVars>>

\* The job API answers CHECK_STATUS with status FAILED, the third value of the
\* poller's JobStatus type (the simulated API of this repository never does).
CheckStatusReportsFailed(p) ==
  /\ poller[p].pc = "checkStatus"
  /\ poller[p].jobId \in DOMAIN jobs
  /\ nCheck' = [nCheck EXCEPT ![poller[p].jobId] = @ + 1]
  /\ PollReceive(p, "FAILED")
  /\ UNCHANGED <<jobs, tokens, sfnCalls, creator, nPolls, nGate, api, uploadVars>>

\* poller handler, step 6: updateStatus(jobId, 'COMPLETED') or, for a FAILED
\* job, updateStatus(jobId, 'FAILED').
PollMarkTerminal(p) ==
  /\ poller[p].pc \in {"markCompleted", "markFailed"}
  /\ IF poller[p].pc = "markCompleted"
       THEN /\ updateStatus(poller[p].jobId, "COMPLETED")
            /\ Goto(p, "sendSuccess")
       ELSE /\ updateStatus(poller[p].jobId, "FAILED")
            /\ Goto(p, "sendFailed")
  /\ UNCHANGED <<jobs, sfnCalls, creator, resp, nPolls, nGate, nCheck, api, uploadVars>>

\* poller handler, step 6: SendTaskSuccess, or SendTaskFailure(JobFailed),
\* then return.
PollSendResult(p) ==
  /\ poller[p].pc \in {"sendSuccess", "sendFailed"}
  /\ IF poller[p].pc = "sendSuccess"
       THEN /\ sfnCalls' = Append(sfnCalls,
                 SendTaskSuccess(poller[p].taskToken, poller[p].newAttemptCount))
            /\ Return(p, poller[p].jobId, [status |-> "COMPLETED", reconnected |-> TRUE])
       ELSE /\ sfnCalls' = Append(sfnCalls, SendTaskFailure(poller[p].taskToken, "JobFailed"))
            /\ Return(p, poller[p].jobId, [status |-> "FAILED"])
  /\ UNCHANGED <<jobs, tokens, creator, nPolls, nGate, nCheck, api, uploadVars>>

\* An awaited command rejects (store or API unavailable) or the invocation
\* dies: the catch block rethrows and the invocation ends without a response.
PollThrow(p) ==
  /\ Active(p)
  /\ Return(p, poller[p].jobId, Thrown)
  /\ UNCHANGED <<jobs, tokens, sfnCalls, creator, nPolls, nGate, nCheck, api, uploadVars>>

\* The response has been delivered to whoever triggered the poll; the lambda
\* instance is free for the next invocation.
PollerExit(p) ==
  /\ poller[p].pc = "returned"
  /\ poller' = [poller EXCEPT ![p] = IdlePoller]
  /\ resp' = [resp EXCEPT ![p] = NoResponse]
  /\ UNCHANGED <<jobs, tokens, sfnCalls, creator, nPolls, nGate, nCheck, api, uploadVars>>

\* ---------------------------------------------------------------- simulated API, invoked directly
\* The actions a SimulatedApiEvent may name: the two the handler serves and
\* one it does not.
ApiActions == {"CREATE_JOB", "CHECK_STATUS", "CANCEL_JOB"}

\* A jobId no createJob has generated.
UnknownJobId == MaxJobs + 1

\* The message of the { error } answer the handler gives before any write, ""
\* when the request goes on to createJob or checkStatus: CHECK_STATUS without
\* a jobId, checkStatus on a jobId whose GetItem finds no item, and an action
\* that is neither CREATE_JOB nor CHECK_STATUS.
ApiError_DefaultCreates(action, jobId) ==
  IF action = "CHECK_STATUS"
    THEN IF jobId = Undefined THEN "jobId is required for CHECK_STATUS action"
         ELSE IF jobId \notin DOMAIN jobs THEN "Job not found"
         ELSE ""
    ELSE ""

ApiError(action, jobId) ==
  IF action = "CREATE_JOB" THEN ""
  ELSE IF action = "CHECK_STATUS"
    THEN IF jobId = Undefined THEN "jobId is required for CHECK_STATUS action"
         ELSE IF jobId \notin DOMAIN jobs THEN "Job not found"
         ELSE ""
  ELSE "Unknown action"

\* The invocation ends with this answer.
ApiAnswer(answer) == api' = [api EXCEPT !.pc = "answered", !.answer = answer]

\* handler (simulated-api) up to its first write: the { error } answers,
\* createJob's PutItem and answer, or checkStatus's GetItem of a stored job.
ApiInvoke(action, jobId, cp) ==
  /\ api.pc = "idle"
  /\ api.n < MaxApiCalls
  /\ LET started == [IdleApi EXCEPT !.action = action, !.jobId = jobId, !.n = api.n + 1] IN
     IF ApiError(action, jobId) # ""
       THEN /\ api' = [started EXCEPT !.pc = "answered",
                          !.answer = [error |-> ApiError(action, jobId)]]
            /\ UNCHANGED jobs
       ELSE IF action = "CHECK_STATUS"
         THEN /\ api' = [started EXCEPT !.pc = "updatePollCount",
                            !.newPollCount = jobs[jobId].pollCount + 1,
                            !.completionPolls = jobs[jobId].completionPolls]
              /\ UNCHANGED jobs
         ELSE /\ \E j \in JobIds : j \notin DOMAIN jobs
              /\ jobs' = Put(jobs, NewJobId, JobItem(cp))
              /\ api' = [started EXCEPT !.pc = "answered", !.jobId = NewJobId,
                            !.answer = [jobId |-> NewJobId, status |-> "IN_PROGRESS",
                                        completionPolls |-> cp]]
  /\ UNCHANGED <<tokens, sfnCalls, creator, poller, resp, nPolls, nGate, nCheck, uploadVars>>

\* checkStatus: UpdateItem SET pollCount = :count; below the threshold the
\* invocation answers IN_PROGRESS.
ApiUpdatePollCount ==
  /\ api.pc = "updatePollCount"
  /\ jobs' = [jobs EXCEPT ![api.jobId] = SetPollCount(@, api.newPollCount)]
  /\ IF StatusFor(api.newPollCount, api.completionPolls) = "COMPLETED"
       THEN api' = [api EXCEPT !.pc = "markJobCompleted"]
       ELSE ApiAnswer([jobId |-> api.jobId, status |-> "IN_PROGRESS",
                       pollCount |-> api.newPollCount,
                       completionPolls |-> api.completionPolls])
  /\ UNCHANGED <<tokens, sfnCalls, creator, poller, resp, nPolls, nGate, nCheck, uploadVars>>

\* checkStatus: UpdateItem SET status = COMPLETED, then the answer.
ApiMarkCompleted ==
  /\ api.pc = "markJobCompleted"
  /\ jobs' = [jobs EXCEPT ![api.jobId].status = "COMPLETED"]
  /\ ApiAnswer([jobId |-> api.jobId, status |-> "COMPLETED",
                pollCount |-> api.newPollCount, completionPolls |-> api.completionPolls])
  /\ UNCHANGED <<tokens, sfnCalls, creator, poller, resp, nPolls, nGate, nCheck, uploadVars>>

\* One of checkStatus's UpdateItems rejects: the handler's catch answers
\* { error: message }.
ApiStoreFails ==
  /\ api.pc \in {"updatePollCount", "markJobCompleted"}
  /\ ApiAnswer([error |-> "store"])
  /\ UNCHANGED <<jobs, tokens, sfnCalls, creator, poller, resp, nPolls, nGate, nCheck, uploadVars>>

\* The caller has the answer.
ApiExit ==
  /\ api.pc = "answered"
  /\ api' = [IdleApi EXCEPT !.n = api.n]
  /\ UNCHANGED <<jobs, tokens, sfnCalls, creator, poller, resp, nPolls, nGate, nCheck, uploadVars>>

\* ---------------------------------------------------------------- upload pipeline
\* The uploadId generateUploadId gives the n-th upload: unique per upload.
UploadIdOf(n) ==
  IF n \in 1..4 THEN <<"u1", "u2", "u3", "u4">>[n] ELSE "u-x"

\* saveUploadRecord: the record is put under its uploadId.
SaveUploadRecord(table, record) == Put(table, record.uploadId, record)

\* getUploadRecord's result when the table has no item under the uploadId.
NoRecord == [uploadId |-> "", status |-> "", filename |-> ""]

\* getUploadRecord: the item stored under the uploadId, if any; a read.
GetUploadRecord(uploadId) ==
  IF uploadId \in DOMAIN uploads THEN uploads[uploadId] ELSE NoRecord

\* An UploadError as the error handler sends it.
ErrorReply(route, uploadId, statusCode, code) ==
  [route |-> route, uploadId |-> uploadId, statusCode |-> statusCode, error |-> code,
   status |-> ""]

MAX_FILE_SIZE == 104857600

\* A POST /initiate body that passes validation.
ValidRequest == [filename |-> "f", size |-> 1, contentType |-> "video/mp4"]

\* The POST /initiate bodies explored: the valid one, one without filename,
\* one with size 0, one over the size limit, one without contentType.
InitiateRequests ==
  { ValidRequest,
    [filename |-> "", size |-> 1, contentType |-> "video/mp4"],
    [filename |-> "f", size |-> 0, contentType |-> "video/mp4"],
    [filename |-> "f", size |-> MAX_FILE_SIZE + 1, contentType |-> "video/mp4"],
    [filename |-> "f", size |-> 1, contentType |-> ""] }

\* POST /initiate: validation, then a fresh uploadId and the record saved
\* with status PENDING.
Initiate(body) ==
  /\ IF body.filename = "" THEN
       /\ http' = ErrorReply("initiate", "", 400, "INVALID_FILENAME")
       /\ UNCHANGED uploads
     ELSE IF body.size <= 0 THEN
       /\ http' = ErrorReply("initiate", "", 400, "INVALID_SIZE")
       /\ UNCHANGED uploads
     ELSE IF body.contentType = "" THEN
       /\ http' = ErrorReply("initiate", "", 400, "INVALID_CONTENT_TYPE")
       /\ UNCHANGED uploads
     ELSE IF body.size > MAX_FILE_SIZE THEN
       /\ http' = ErrorReply("initiate", "", 413, "FILE_TOO_LARGE")
       /\ UNCHANGED uploads
     ELSE
       \E n \in 1..MaxUploads :
         /\ UploadIdOf(n) \notin DOMAIN uploads
         /\ \A k \in 1..(n - 1) : UploadIdOf(k) \in DOMAIN uploads
         /\ uploads' = SaveUploadRecord(uploads,
              [uploadId |-> UploadIdOf(n), status |-> "PENDING", filename |-> body.filename])
         /\ http' = [route |-> "initiate", uploadId |-> UploadIdOf(n), statusCode |-> 200,
                     error |-> "", status |-> ""]
  /\ UNCHANGED <<jobs, tokens, sfnCalls, creator, poller, resp, nPolls, nGate, nCheck, api, s3ev>>

\* The HTTP status code of GET /status/:uploadId for a stored record.
StatusCodeFor_Always200(status) == 200

StatusCodeFor(status) == IF status = "COMPLETED" THEN 201 ELSE 200

\* uploadId.trim() === '' on the ids explored.
IsBlank(uploadId) == uploadId \in {"", " "}

\* GET /status/:uploadId.
GetStatus(uploadId) ==
  /\ http' =
       IF IsBlank(uploadId) THEN ErrorReply("status", uploadId, 400, "MISSING_UPLOAD_ID")
       ELSE LET record == GetUploadRecord(uploadId) IN
         IF record = NoRecord THEN ErrorReply("status", uploadId, 404, "UPLOAD_NOT_FOUND")
         ELSE [route |-> "status", uploadId |-> record.uploadId,
               statusCode |-> StatusCodeFor(record.status), error |-> "",
               status |-> record.status]
  /\ UNCHANGED <<jobs, tokens, sfnCalls, creator, poller, resp, nPolls, nGate, nCheck, api,
                 uploads, s3ev>>

\* Object keys are sequences of name pieces and of the characters "/", " "
\* and "+". The keys explored: a file of upload u1, a file under an uploadId
\* with a plus sign, a key that ends after the uploadId's slash, a key with
\* two parts, a key outside uploads/, and a key with an empty uploadId.
ObjectKeys ==
  { <<"uploads", "/", "u1", "/", "f", " ", "f">>,
    <<"uploads", "/", "u1", "+", "/", "f">>,
    <<"uploads", "/", "u2", "/">>,
    <<"uploads", "/", "u1">>,
    <<"tmp", "/", "u1", "/", "f">>,
    <<"uploads", "/", "/", "f">> }

\* The key as the S3 event carries it: URL-encoded, a space as "+".
S3EventKey(key) ==
  [i \in 1..Len(key) |->
     IF key[i] = " " THEN "+" ELSE IF key[i] = "+" THEN "%2B" ELSE key[i]]

\* decodeURIComponent(record.s3.object.key.replace(/\+/g, ' '))
DecodeKey(eventKey) ==
  LET replaced == [i \in 1..Len(eventKey) |-> IF eventKey[i] = "+" THEN " " ELSE eventKey[i]]
  IN [i \in 1..Len(replaced) |-> IF replaced[i] = "%2B" THEN "+" ELSE replaced[i]]

\* key.split('/')
RECURSIVE PathParts(_)
PathParts(key) ==
  IF key = << >> THEN <<"">>
  ELSE LET rest == PathParts(Tail(key)) IN
       IF Head(key) = "/" THEN <<"">> \o rest
       ELSE <<Head(key) \o rest[1]>> \o Tail(rest)

\* The handler's test for a key it skips.
InvalidKeyFormat(pathParts) == Len(pathParts) < 3 \/ pathParts[1] # "uploads"

\* All event sequences of at most n object keys.
RECURSIVE KeySeqs(_)
KeySeqs(n) ==
  IF n = 0 THEN {<< >>}
  ELSE KeySeqs(n - 1) \cup {Append(ks, k) : ks \in {q \in KeySeqs(n - 1) : Len(q) = n - 1}, k \in ObjectKeys}

\* S3 invokes the upload-complete lambda with an event about these objects.
S3Deliver(keys) ==
  /\ s3ev.pc = "idle"
  /\ keys # << >>
  /\ s3ev' = [IdleS3 EXCEPT !.pc = "record", !.keys = keys,
                 !.Records = [i \in 1..Len(keys) |-> S3EventKey(keys[i])], !.i = 1]
  /\ UNCHANGED <<jobs, tokens, sfnCalls, creator, poller, resp, nPolls, nGate, nCheck, api,
                 uploads, http>>

\* The loop goes on to the next record.
NextRecord(outcome) ==
  s3ev' = [s3ev EXCEPT !.pc = "record", !.i = @ + 1, !.uploadId = "",
                       !.outcome = Append(@, outcome)]

\* The catch block inside the loop: the error is logged and the loop goes on.
CaughtError_Aborts == s3ev' = IdleS3

CaughtError == NextRecord("failed")

\* The record the loop is at, decoded and split.
CurrentParts == PathParts(DecodeKey(s3ev.Records[s3ev.i]))

\* upload-complete handler: a record whose key has not the expected format
\* is skipped.
UploadCompleteSkip ==
  /\ s3ev.pc = "record"
  /\ s3ev.i <= Len(s3ev.Records)
  /\ InvalidKeyFormat(CurrentParts)
  /\ NextRecord("skipped")
  /\ UNCHANGED <<jobs, tokens, sfnCalls, creator, poller, resp, nPolls, nGate, nCheck, api,
                 uploads, http>>

\* upload-complete handler: uploadId = pathParts[1], then HeadObject.
UploadCompleteHead ==
  /\ s3ev.pc = "record"
  /\ s3ev.i <= Len(s3ev.Records)
  /\ ~InvalidKeyFormat(CurrentParts)
  /\ s3ev' = [s3ev EXCEPT !.pc = "update", !.uploadId = CurrentParts[2]]
  /\ UNCHANGED <<jobs, tokens, sfnCalls, creator, poller, resp, nPolls, nGate, nCheck, api,
                 uploads, http>>

\* HeadObject rejects (the object is gone, or S3 is unavailable).
UploadCompleteHeadFails ==
  /\ s3ev.pc = "record"
  /\ s3ev.i <= Len(s3ev.Records)
  /\ ~InvalidKeyFormat(CurrentParts)
  /\ CaughtError
  /\ UNCHANGED <<jobs, tokens, sfnCalls, creator, poller, resp, nPolls, nGate, nCheck, api,
                 uploads, http>>

\* The item after UpdateItem SET #status = COMPLETED, actualSize, completedAt,
\* s3ETag: the other attributes stay, and an item is created when none is
\* stored under the key.
MarkCompleted(uploadId) ==
  IF uploadId \in DOMAIN uploads
    THEN [uploads[uploadId] EXCEPT !.status = "COMPLETED"]
    ELSE [uploadId |-> uploadId, status |-> "COMPLETED", filename |-> ""]

\* upload-complete handler: UpdateItem on poc-file-uploads. DynamoDB rejects
\* an empty string as key attribute value, which the catch block handles.
UploadCompleteUpdate ==
  /\ s3ev.pc = "update"
  /\ IF s3ev.uploadId = ""
       THEN /\ CaughtError
            /\ UNCHANGED uploads
       ELSE /\ uploads' = Put(uploads, s3ev.uploadId, MarkCompleted(s3ev.uploadId))
            /\ NextRecord("completed")
  /\ UNCHANGED <<jobs, tokens, sfnCalls, creator, poller, resp, nPolls, nGate, nCheck, api,
                 http>>

\* UpdateItem rejects (poc-file-uploads unavailable).
UploadCompleteUpdateFails ==
  /\ s3ev.pc = "update"
  /\ CaughtError
  /\ UNCHANGED <<jobs, tokens, sfnCalls, creator, poller, resp, nPolls, nGate, nCheck, api,
                 uploads, http>>

\* upload-complete handler: the loop is over, the handler returns.
UploadCompleteReturn ==
  /\ s3ev.pc = "record"
  /\ s3ev.i > Len(s3ev.Records)
  /\ s3ev' = IdleS3
  /\ UNCHANGED <<jobs, tokens, sfnCalls, creator, poller, resp, nPolls, nGate, nCheck, api,
                 uploads, http>>

\* ---------------------------------------------------------------- spec
\* The instance Lambda gives an invocation: the instances are interchangeable,
\* the lowest free one is taken (0, which no action accepts, when none is free).
FreeInstance ==
  IF \E p \in Pollers : poller[p].pc = "idle"
    THEN CHOOSE p \in Pollers : poller[p].pc = "idle" /\ \A q \in Pollers : poller[q].pc = "idle" => p <= q
    ELSE 0

\* The jobIds a duplicate or stray trigger polls: those with a token record
\* and one without, the lowest (jobIds without a record are handled alike).
PollTargets ==
  DOMAIN tokens \cup
    {j \in JobIds : j \notin DOMAIN tokens /\ \A k \in JobIds : k < j => k \in DOMAIN tokens}

\* The steps of an invocation in flight, the same under every scheduling.
PollStep(p) ==
  \/ PollIncrement(p)
  \/ PollMaxAttempts(p)
  \/ PollSendMaxAttempts(p)
  \/ CheckStatusGet(p)
  \/ CheckStatusUpdatePollCount(p)
  \/ CheckStatusMarkCompleted(p)
  \/ PollMarkTerminal(p)
  \/ PollSendResult(p)
  \/ PollerExit(p)

\* One job's callback lifecycle under duplicate and overlapping triggers: the
\* job is created once, Poll is invoked for it at any time once its token is
\* stored, and every command succeeds.
NextNoThrow ==
  \/ \E cp \in CompletionPollsChoices : DOMAIN jobs = {} /\ CreateJobInvokeApi(cp)
  \/ \E maxA \in MaxAttemptsChoices : CreateJobSaveToken(TaskTokenOf(creator.jobId), maxA)
  \/ \E j \in DOMAIN tokens : PollsStarted < MaxPolls /\ PollGetToken(FreeInstance, j)
  \/ \E p \in Pollers : PollStep(p)

SpecNoThrow == Init /\ [][NextNoThrow]_vars

\* The same, and Poll is also invoked for jobIds that have no token record.
NextStray ==
  \/ NextNoThrow
  \/ \E j \in PollTargets \ DOMAIN tokens :
        PollsStarted < MaxPolls /\ PollGetToken(FreeInstance, j)

SpecStray == Init /\ [][NextStray]_vars

\* The same, and any awaited command may fail.
Next ==
  \/ NextNoThrow
  \/ \E p \in Pollers : PollThrow(p)
  \/ \E p \in Pollers : CheckStatusFails(p)
  \/ CreateJobApiFails
  \/ CreateJobThrow

Spec == Init /\ [][Next]_vars

\* The polling of scripts/poll-manually.sh: one invocation at a time, each
\* running to its return, and no command fails.
NextSeq ==
  \/ \E cp \in CompletionPollsChoices : CreateJobInvokeApi(cp)
  \/ \E maxA \in MaxAttemptsChoices : CreateJobSaveToken(TaskTokenOf(creator.jobId), maxA)
  \/ \E j \in JobIds :
        /\ PollsStarted < MaxSeqPolls
        /\ \A q \in Pollers : poller[q].pc = "idle"
        /\ PollGetToken(FreeInstance, j)
  \/ \E p \in Pollers : PollStep(p)
  \/ CreatorExit

SpecSeq == Init /\ [][NextSeq]_vars

\* One job polled one invocation at a time, where an invocation may die at
\* any command and the job API may report the job FAILED.
NextSeqFaulty ==
  \/ \E cp \in CompletionPollsChoices : DOMAIN jobs = {} /\ CreateJobInvokeApi(cp)
  \/ \E maxA \in MaxAttemptsChoices : CreateJobSaveToken(TaskTokenOf(creator.jobId), maxA)
  \/ \E j \in PollTargets :
        /\ PollsStarted < MaxPolls
        /\ \A q \in Pollers : poller[q].pc = "idle"
        /\ PollGetToken(FreeInstance, j)
  \/ \E p \in Pollers : PollStep(p)
  \/ \E p \in Pollers : PollThrow(p)
  \/ \E p \in Pollers : CheckStatusReportsFailed(p)

SpecSeqFaulty == Init /\ [][NextSeqFaulty]_vars

\* The jobIds of two jobs A and B.
PairJobs == {1, 2}

\* Two jobs polled at once: the two CreateJob invocations follow one another,
\* Polls for either job overlap, and no command fails.
NextPair ==
  \/ \E cp \in CompletionPollsChoices : ~(PairJobs \subseteq DOMAIN jobs) /\ CreateJobInvokeApi(cp)
  \/ \E maxA \in MaxAttemptsChoices : CreateJobSaveToken(TaskTokenOf(creator.jobId), maxA)
  \/ CreatorExit
  \/ \E j \in DOMAIN tokens : PollsStarted < MaxPairPolls /\ PollGetToken(FreeInstance, j)
  \/ \E p \in Pollers : PollStep(p)

SpecPair == Init /\ [][NextPair]_vars

\* The simulated API lambda invoked on its own, one invocation at a time,
\* with any event a caller may send.
NextApi ==
  \/ \E action \in ApiActions, jobId \in JobIds \cup {UnknownJobId, Undefined},
        cp \in CompletionPollsChoices : ApiInvoke(action, jobId, cp)
  \/ ApiUpdatePollCount
  \/ ApiMarkCompleted
  \/ ApiStoreFails
  \/ ApiExit

SpecApi == Init /\ [][NextApi]_vars

\* One job polled one invocation at a time while poc-jobs may be unavailable
\* to the simulated API.
NextSeqApiErr ==
  \/ \E cp \in CompletionPollsChoices : DOMAIN jobs = {} /\ CreateJobInvokeApi(cp)
  \/ \E maxA \in MaxAttemptsChoices : CreateJobSaveToken(TaskTokenOf(creator.jobId), maxA)
  \/ \E j \in DOMAIN tokens :
        /\ PollsStarted < MaxPolls
        /\ \A q \in Pollers : poller[q].pc = "idle"
        /\ PollGetToken(FreeInstance, j)
  \/ \E p \in Pollers : PollStep(p)
  \/ \E p \in Pollers : CheckStatusFails(p)

SpecSeqApiErr == Init /\ [][NextSeqApiErr]_vars

\* The uploadIds a client asks the status of: those of uploads, one that was
\* never given out, and blank ones.
StatusRequests == {UploadIdOf(n) : n \in 1..MaxUploads} \cup {"u1+", "u0", "", " "}

\* The upload API with its clients: uploads are initiated, S3 reports each
\* object on its own, and the status is asked at any time.
NextUploadApi ==
  \/ \E body \in InitiateRequests : Initiate(body)
  \/ \E uploadId \in StatusRequests : GetStatus(uploadId)
  \/ \E key \in ObjectKeys : S3Deliver(<<key>>)
  \/ UploadCompleteSkip
  \/ UploadCompleteHead
  \/ UploadCompleteHeadFails
  \/ UploadCompleteUpdate
  \/ UploadCompleteUpdateFails
  \/ UploadCompleteReturn

SpecUploadApi == Init /\ [][NextUploadApi]_vars

\* The upload-complete lambda under S3 events of several records, next to
\* uploads being initiated.
NextUploadComplete ==
  \/ Initiate(ValidRequest)
  \/ \E keys \in KeySeqs(MaxRecords) : S3Deliver(keys)
  \/ UploadCompleteSkip
  \/ UploadCompleteHead
  \/ UploadCompleteHeadFails
  \/ UploadCompleteUpdate
  \/ UploadCompleteUpdateFails
  \/ UploadCompleteReturn

SpecUploadComplete == Init /\ [][NextUploadComplete]_vars

\* ---------------------------------------------------------------- claims
\* Positions in sfnCalls of the resume calls that carry job j's token.
ResumesFor(j) == {i \in 1..Len(sfnCalls) : sfnCalls[i].taskToken = tokens[j].taskToken}

\* C1: for every jobId and every interleaving of Polls, at most one resume
\* call (SendTaskSuccess or SendTaskFailure) is ever issued with its token.
C1_AtMostOneResume ==
  \A j \in DOMAIN tokens : Cardinality(ResumesFor(j)) <= 1

\* C2: once the stored token status is terminal it never changes to any
\* other value.
C2_TerminalIsFinal ==
  [][\A j \in DOMAIN tokens :
       tokens[j].status \in TerminalStatuses => tokens'[j].status = tokens[j].status]_vars

\* C3: a Poll that starts when the stored token status is terminal returns
\* exactly that status and changes nothing: no token or job write, no
\* checkStatus call, no resume call, neither in its first step nor after it.
C3_TerminalPollIsNoOp ==
  [][\A p \in Pollers :
       /\ \A j \in DOMAIN tokens :
            (/\ poller[p].pc = "idle"
             /\ poller'[p].pc # "idle"
             /\ poller'[p].jobId = j
             /\ tokens[j].status \in TerminalStatuses)
            => /\ poller'[p].pc = "returned"
               /\ resp'[p] = [status |-> tokens[j].status]
               /\ UNCHANGED <<jobs, tokens, sfnCalls, nCheck, nGate>>
       /\ (poller[p].pc = "returned" /\ poller'[p] # poller[p])
            => /\ poller'[p].pc = "idle"
               /\ UNCHANGED <<jobs, tokens, sfnCalls, nCheck, nGate>>]_vars

\* C3 witness: a Poll has returned the stored status COMPLETED through the
\* gate (the completing Poll itself answers with reconnected = true), and
\* another one the stored status MAX_ATTEMPTS after the resume was sent.
C3_Witness ==
  \E p \in Pollers, j \in DOMAIN tokens :
    /\ poller[p].pc = "returned"
    /\ poller[p].jobId = j
    /\ tokens[j].status = "COMPLETED"
    /\ resp[p] = [status |-> "COMPLETED"]

\* C4: whenever a resume call has been issued for a token, the Token Store
\* holds a terminal status for it: notified-but-POLLING is unreachable, also
\* when Polls throw between any two of their steps.
C4_TerminalBeforeResume ==
  \A j \in DOMAIN tokens :
    ResumesFor(j) # {} => tokens[j].status \in TerminalStatuses

\* C4 witness: a resume call has been issued for a token while another Poll
\* for the same jobId ended by throwing.
C4_Witness ==
  \E j \in DOMAIN tokens, p \in Pollers :
    /\ ResumesFor(j) # {}
    /\ poller[p].pc = "returned"
    /\ poller[p].jobId = j
    /\ resp[p] = Thrown

\* The resume calls that carry job j's token, in the order they were sent.
CallsFor(j) ==
  LET Mine(c) == c.taskToken = tokens[j].taskToken IN SelectSeq(sfnCalls, Mine)

\* Poller p has returned from a Poll of job j that found its token record.
ReturnedFrom(p, j) ==
  /\ poller[p].pc = "returned"
  /\ poller[p].jobId = j
  /\ nPolls[j] >= 1

\* C5: job with completionPolls = N and maxAttempts >= N, polled one Poll at
\* a time with no failure: the k-th Poll (k < N) returns IN_PROGRESS with
\* attempt = k, the N-th returns COMPLETED with reconnected = true and leaves
\* the token COMPLETED with attemptCount = N, every later Poll returns
\* COMPLETED and attemptCount stays N.
C5_SequentialScenario ==
  \A p \in Pollers, j \in DOMAIN tokens :
    LET N == jobs[j].completionPolls
        M == tokens[j].maxAttempts
        k == nPolls[j]
    IN (ReturnedFrom(p, j) /\ M >= N) =>
         /\ k < N => resp[p] = [status |-> "IN_PROGRESS", attempt |-> k, maxAttempts |-> M]
         /\ k = N => /\ resp[p] = [status |-> "COMPLETED", reconnected |-> TRUE]
                      /\ tokens[j].status = "COMPLETED"
                      /\ tokens[j].attemptCount = N
         /\ k > N => /\ resp[p] = [status |-> "COMPLETED"]
                      /\ tokens[j].status = "COMPLETED"
                      /\ tokens[j].attemptCount = N

\* C5 witness: the Poll after the completing one has returned, for N = 3.
C5_Witness ==
  \E p \in Pollers, j \in DOMAIN tokens :
    /\ ReturnedFrom(p, j)
    /\ jobs[j].completionPolls = 3
    /\ tokens[j].maxAttempts >= 3
    /\ nPolls[j] = 4
    /\ resp[p] = [status |-> "COMPLETED"]

\* C6: Polls that found POLLING number at most maxAttempts + 1 per token,
\* and once no Poll is in flight and either that many have run or the token
\* is terminal, the token is terminal and exactly one resume call has been
\* issued for it, SendTaskSuccess exactly when the job was seen COMPLETED.
C6_AttemptBoundedResume ==
  \A j \in DOMAIN tokens :
    LET M == tokens[j].maxAttempts IN
      /\ nGate[j] <= M + 1
      /\ (ActiveOn(j) = {} /\ (nGate[j] = M + 1 \/ tokens[j].status \in TerminalStatuses))
           => /\ tokens[j].status \in TerminalStatuses
              /\ Len(CallsFor(j)) = 1
              /\ CallsFor(j)[1].command = "SendTaskSuccess" <=> jobs[j].status = "COMPLETED"

\* No checkStatus call on job j is between its GetItem and its return.
NoCheckInFlight(j) ==
  \A p \in Pollers :
    poller[p].jobId = j => poller[p].pc \notin {"updatePollCount", "markJobCompleted"}

\* C7: a job with completionPolls = N is stored COMPLETED after the N-th
\* checkStatus call and after no earlier one: calls 1..N-1 return
\* IN_PROGRESS and leave the stored status IN_PROGRESS, the N-th returns
\* COMPLETED.
C7_ThresholdCorrectness ==
  \A j \in DOMAIN jobs :
    LET N == jobs[j].completionPolls
        k == nCheck[j]
    IN /\ jobs[j].status = "COMPLETED" => k >= N
       /\ NoCheckInFlight(j) => (jobs[j].status = "COMPLETED" <=> k >= N)
       /\ \A p \in Pollers :
            /\ (ReturnedFrom(p, j) /\ resp[p].status = "IN_PROGRESS")
                 => (k < N /\ jobs[j].status = "IN_PROGRESS")
            /\ (poller[p].jobId = j /\ poller[p].pc \in {"markCompleted", "sendSuccess"})
                 => k = N
            /\ (poller[p].jobId = j /\ poller[p].pc = "markCompleted" /\ k >= 1)
                 => poller[p].newPollCount = k

\* C7 witness: the third checkStatus call on a job with completionPolls = 3
\* has returned COMPLETED to the poller.
C7_Witness ==
  \E p \in Pollers, j \in DOMAIN jobs :
    /\ poller[p].jobId = j
    /\ poller[p].pc = "markCompleted"
    /\ jobs[j].completionPolls = 3
    /\ nCheck[j] = 3
    /\ jobs[j].status = "COMPLETED"

\* C8: token with maxAttempts = M, job still IN_PROGRESS, Polls one at a
\* time: the (M+1)-th Poll stores MAX_ATTEMPTS, sends
\* SendTaskFailure(MaxAttemptsExceeded) and returns MAX_ATTEMPTS; the M-th
\* Poll does none of these and leaves the token POLLING.
C8_MaxAttemptsBoundary ==
  \A p \in Pollers, j \in DOMAIN tokens :
    LET M == tokens[j].maxAttempts
        k == nPolls[j]
    IN (ReturnedFrom(p, j) /\ jobs[j].status = "IN_PROGRESS") =>
         /\ k = M + 1 =>
              /\ tokens[j].status = "MAX_ATTEMPTS"
              /\ tokens[j].attemptCount = M + 1
              /\ CallsFor(j) = <<SendTaskFailure(tokens[j].taskToken, "MaxAttemptsExceeded")>>
              /\ resp[p] = [status |-> "MAX_ATTEMPTS"]
         /\ k = M =>
              /\ tokens[j].status = "POLLING"
              /\ CallsFor(j) = << >>
              /\ resp[p].status = "IN_PROGRESS"

\* C8 witness: the third Poll of a token with maxAttempts = 2 has returned
\* MAX_ATTEMPTS with the job still IN_PROGRESS.
C8_Witness ==
  \E p \in Pollers, j \in DOMAIN tokens :
    /\ ReturnedFrom(p, j)
    /\ jobs[j].status = "IN_PROGRESS"
    /\ tokens[j].maxAttempts = 2
    /\ nPolls[j] = 3
    /\ resp[p] = [status |-> "MAX_ATTEMPTS"]

\* C9: once the n Polls that found POLLING have finished, the stored
\* attemptCount equals n, in any interleaving.
C9_AttemptCountCountsPolls ==
  \A j \in DOMAIN tokens :
    ActiveOn(j) = {} => tokens[j].attemptCount = nGate[j]

\* C10: the stored attemptCount never decreases, in any interleaving.
C10_AttemptCountMonotonic ==
  [][\A j \in DOMAIN tokens : tokens'[j].attemptCount >= tokens[j].attemptCount]_vars

\* C11: in every reachable state the stored attemptCount of a TaskToken record
\* is at most maxAttempts + 1.
C11_AttemptCountCeiling ==
  \A j \in DOMAIN tokens : tokens[j].attemptCount <= tokens[j].maxAttempts + 1

\* C12: a Job whose stored status is COMPLETED keeps that status in every
\* later state, whatever checkStatus calls follow or overlap.
C12_CompletedJobStaysCompleted ==
  [][\A j \in DOMAIN jobs :
       jobs[j].status = "COMPLETED" => jobs'[j].status = "COMPLETED"]_vars

\* A checkStatus call has written pollCount on a job that was already past its
\* threshold and is stored COMPLETED.
C12_Witness ==
  \E j \in DOMAIN jobs :
    /\ jobs[j].status = "COMPLETED"
    /\ jobs[j].pollCount > jobs[j].completionPolls

\* C13: the stored pollCount of a Job never decreases from one state to the
\* next, overlapping checkStatus calls included.
C13_PollCountMonotonic ==
  [][\A j \in DOMAIN jobs : jobs'[j].pollCount >= jobs[j].pollCount]_vars

\* C14: in every reachable state of the Job Store a Job's status is COMPLETED
\* exactly when its pollCount has reached its completionPolls.
C14_CompletedIffThreshold ==
  \A j \in DOMAIN jobs :
    (jobs[j].status = "COMPLETED") <=> (jobs[j].pollCount >= jobs[j].completionPolls)

\* C15: a Poll for a jobId without a TaskToken record ends at its first step
\* with the response { status: ERROR, error: Token not found } and leaves the
\* Job Store, the Token Store and the calls to the orchestrator as they were.
C15_TokenNotFoundIsReadOnly ==
  [][\A p \in Pollers :
       (poller[p].pc = "idle" /\ poller'[p].pc # "idle"
          /\ poller'[p].jobId \notin DOMAIN tokens)
       => /\ poller'[p].pc = "returned"
          /\ resp'[p] = [status |-> "ERROR", error |-> "Token not found"]
          /\ UNCHANGED <<jobs, tokens, sfnCalls>>]_vars

\* A Poll has returned the token-not-found error for a jobId that still has no
\* record.
C15_Witness ==
  \E p \in Pollers :
    /\ poller[p].pc = "returned"
    /\ resp[p].status = "ERROR"
    /\ poller[p].jobId \notin DOMAIN tokens

\* The create-job invocation has returned { jobId, status: POLLING }.
CreateJobSucceeded ==
  /\ creator.pc = "returned"
  /\ creator.resp = [jobId |-> creator.jobId, status |-> "POLLING"]

\* C16: once CreateJob has returned { jobId, status: POLLING } and until a
\* Poll reads the record, the Job Store holds the job under that jobId with
\* status IN_PROGRESS and pollCount 0, and the Token Store holds a record with
\* the event's taskToken, status POLLING, attemptCount 0 and the event's
\* pollingConfig.maxAttempts.
C16_CreateJobPostcondition ==
  (CreateJobSucceeded /\ nPolls[creator.jobId] = 0)
  => /\ creator.jobId \in DOMAIN jobs
     /\ jobs[creator.jobId].status = "IN_PROGRESS"
     /\ jobs[creator.jobId].pollCount = 0
     /\ creator.jobId \in DOMAIN tokens
     /\ tokens[creator.jobId] =
          [taskToken |-> creator.taskToken, attemptCount |-> 0,
           maxAttempts |-> creator.maxAttempts, status |-> "POLLING"]

\* CreateJob has returned its success response for a maxAttempts other than
\* the default, and no Poll has read the record yet.
C16_Witness ==
  /\ CreateJobSucceeded
  /\ nPolls[creator.jobId] = 0
  /\ creator.maxAttempts = 2
  /\ creator.taskToken = TaskTokenOf(creator.jobId)

\* C17: every TaskToken record has a Job under the same jobId, also after a
\* CreateJob whose createJob could not store the job.
C17_NoOrphanToken == DOMAIN tokens \subseteq DOMAIN jobs

\* A CreateJob whose createJob failed has run to its end.
C17_Witness ==
  /\ creator.pc = "returned"
  /\ creator.jobId = Undefined
  /\ DOMAIN jobs = {}

\* C18: a CreateJob invocation ends either with { jobId, status: POLLING } or
\* in error, and with the success response exactly when both the Job and the
\* TaskToken record are stored under its jobId.
C18_SuccessOnlyIfBothStored ==
  creator.pc = "returned"
  => /\ CreateJobSucceeded \/ creator.resp = Thrown
     /\ CreateJobSucceeded
          <=> (creator.jobId \in DOMAIN jobs /\ creator.jobId \in DOMAIN tokens)

\* A CreateJob whose job was stored and whose token write failed has ended in
\* error.
C18_Witness ==
  /\ creator.pc = "returned"
  /\ creator.resp = Thrown
  /\ creator.jobId \in DOMAIN jobs
  /\ creator.jobId \notin DOMAIN tokens

\* C19: a Poll whose job check hit a store error ends in error, never with a
\* normal response.
C19_StoreErrorsSurface ==
  \A p \in Pollers :
    (poller[p].pc = "returned" /\ poller[p].jobStatus = ErrorAnswer("store"))
    => resp[p] = Thrown

\* The statuses the Poll interface names.
PollStatuses == {"IN_PROGRESS", "COMPLETED", "FAILED", "MAX_ATTEMPTS"}

\* C20 as stated: every response a Poll returns has a status among
\* IN_PROGRESS, COMPLETED, FAILED and MAX_ATTEMPTS.
C20_FourStatuses ==
  \A p \in Pollers :
    (poller[p].pc = "returned" /\ resp[p] # Thrown) => resp[p].status \in PollStatuses

\* C20, amended: a Poll that returns a response for a jobId with a TaskToken
\* record returns a status among IN_PROGRESS, COMPLETED, FAILED and
\* MAX_ATTEMPTS; for a jobId without one it returns { status: ERROR, error:
\* Token not found }.
C20_FourStatusesOrTokenNotFound ==
  [][\A p \in Pollers :
       (poller[p].pc # "returned" /\ poller'[p].pc = "returned" /\ resp'[p] # Thrown)
       => IF poller'[p].jobId \in DOMAIN tokens
            THEN resp'[p].status \in PollStatuses
            ELSE resp'[p] = [status |-> "ERROR", error |-> "Token not found"]]_vars

\* One Poll has returned the token-not-found error while another has returned
\* the stored terminal status of a record.
C20_Witness ==
  \E p, q \in Pollers :
    /\ poller[p].pc = "returned" /\ resp[p].status = "ERROR"
    /\ poller[q].pc = "returned" /\ resp[q].status \in {"COMPLETED", "MAX_ATTEMPTS"}
    /\ poller[q].jobId \in DOMAIN tokens

\* C21: a step of a Poll (its checkStatus included) for jobId A leaves the Job
\* record and the TaskToken record of every other jobId B as they were, and a
\* resume call it issues carries A's token and no other job's.
C21_JobsIndependent ==
  [][\A p \in Pollers :
       poller'[p] # poller[p] =>
         LET a == IF poller[p].pc = "idle" THEN poller'[p].jobId ELSE poller[p].jobId
         IN /\ \A b \in DOMAIN jobs \ {a} : jobs'[b] = jobs[b]
            /\ \A b \in DOMAIN tokens \ {a} : tokens'[b] = tokens[b]
            /\ sfnCalls' # sfnCalls =>
                 /\ sfnCalls'[Len(sfnCalls')].taskToken = tokens[a].taskToken
                 /\ \A b \in DOMAIN tokens \ {a} :
                      sfnCalls'[Len(sfnCalls')].taskToken # tokens[b].taskToken]_vars

\* Polls of the two jobs overlap: each has written its attemptCount and is
\* inside its checkStatus, one of them about to write pollCount.
C21_Witness ==
  \E p, q \in Pollers :
    /\ poller[p].jobId = 1 /\ poller[q].jobId = 2
    /\ poller[p].pc = "updatePollCount"
    /\ poller[q].pc = "updatePollCount"
    /\ tokens[1].attemptCount = 1 /\ tokens[2].attemptCount = 1

\* C22: a Job record or TaskToken record that exists under a jobId exists in
\* the next state too, whatever CreateJob, checkStatus or Poll does.
C22_RecordsNeverDeleted ==
  [][/\ DOMAIN jobs \subseteq DOMAIN jobs'
     /\ DOMAIN tokens \subseteq DOMAIN tokens']_vars

\* A second job has been created after the first one was polled to its
\* terminal status, and both have their records.
C22_Witness ==
  /\ DOMAIN jobs = PairJobs
  /\ DOMAIN tokens = PairJobs
  /\ tokens[1].status \in TerminalStatuses
  /\ nPolls[2] >= 1 /\ nPolls[1] > nPolls[2]

\* C23: a TaskToken record is created with the taskToken of its CreateJob
\* event, no later step changes its taskToken or maxAttempts, and every resume
\* call is issued by a Poll with the taskToken stored for that Poll's jobId.
C23_OneTokenPerJob ==
  [][/\ \A j \in DOMAIN tokens :
          /\ tokens'[j].taskToken = tokens[j].taskToken
          /\ tokens'[j].maxAttempts = tokens[j].maxAttempts
     /\ \A j \in DOMAIN tokens' \ DOMAIN tokens :
          /\ j = creator'.jobId
          /\ tokens'[j].taskToken = creator'.taskToken
     /\ sfnCalls' # sfnCalls =>
          \E p \in Pollers :
            /\ poller'[p] # poller[p]
            /\ sfnCalls'[Len(sfnCalls')].taskToken = tokens[poller[p].jobId].taskToken]_vars

\* Two jobs have their token records and a SendTaskSuccess has been issued for
\* the second.
C23_Witness ==
  /\ DOMAIN tokens = PairJobs
  /\ \E i \in 1..Len(sfnCalls) :
       /\ sfnCalls[i].command = "SendTaskSuccess"
       /\ sfnCalls[i].taskToken = tokens[2].taskToken

\* C24: a job check is never made for a token whose attemptCount has not been
\* written, and the attemptCount written by a Poll stays stored when that Poll
\* dies afterwards: once the only Poll that passed the gate has reached its
\* job check, the stored attemptCount is 1 whatever happens to that Poll.
C24_IncrementBeforeCheck ==
  \A j \in DOMAIN tokens :
    /\ nCheck[j] >= 1 => tokens[j].attemptCount >= 1
    /\ (nGate[j] = 1 /\ nCheck[j] = 1) => tokens[j].attemptCount = 1

\* The only Poll that passed the gate has died after its job check started.
C24_Witness ==
  \E p \in Pollers, j \in DOMAIN tokens :
    /\ nGate[j] = 1 /\ nCheck[j] = 1
    /\ poller[p].pc = "returned" /\ poller[p].jobId = j /\ resp[p] = Thrown
    /\ tokens[j].status = "POLLING"

\* C25: with Polls one at a time, a Poll whose post-increment attemptCount
\* exceeds maxAttempts makes no job check: while it is in its MAX_ATTEMPTS
\* branch and after it, the job has been checked maxAttempts times, its
\* pollCount is maxAttempts and its status IN_PROGRESS; and a token whose
\* attemptCount exceeds maxAttempts is MAX_ATTEMPTS once the Poll is over.
C25_MaxAttemptsBeforeJobCheck ==
  \A j \in DOMAIN tokens :
    LET M == tokens[j].maxAttempts
        InBranch == \E p \in Pollers :
                      poller[p].jobId = j /\ poller[p].pc \in {"maxAttempts", "sendMaxAttempts"}
    IN /\ (InBranch \/ tokens[j].status = "MAX_ATTEMPTS") =>
            /\ tokens[j].attemptCount = M + 1
            /\ nCheck[j] = M
            /\ jobs[j].pollCount = M
            /\ jobs[j].status = "IN_PROGRESS"
       /\ (ActiveOn(j) = {} /\ tokens[j].attemptCount > M) => tokens[j].status = "MAX_ATTEMPTS"

\* A token went MAX_ATTEMPTS on the Poll whose job check would have reported
\* the job COMPLETED.
C25_Witness ==
  \E j \in DOMAIN tokens :
    /\ tokens[j].status = "MAX_ATTEMPTS"
    /\ jobs[j].pollCount + 1 = jobs[j].completionPolls
    /\ ActiveOn(j) = {}

\* C26: with Polls one at a time, a Poll that found POLLING and was answered
\* IN_PROGRESS by checkStatus returns { IN_PROGRESS, attempt, maxAttempts } with
\* the stored attemptCount and maxAttempts, leaves the status POLLING, has
\* changed attemptCount by its one increment only, and no resume call has
\* been issued for the token.
C26_InProgressPoll ==
  \A p \in Pollers, j \in DOMAIN tokens :
    (ReturnedFrom(p, j) /\ poller[p].jobStatus = "IN_PROGRESS") =>
      /\ resp[p] = [status |-> "IN_PROGRESS", attempt |-> tokens[j].attemptCount,
                    maxAttempts |-> tokens[j].maxAttempts]
      /\ tokens[j].status = "POLLING"
      /\ tokens[j].attemptCount = nPolls[j]
      /\ tokens[j].attemptCount <= tokens[j].maxAttempts
      /\ CallsFor(j) = <<>>

\* The second Poll of a job with maxAttempts 2 and completionPolls 3 has
\* returned IN_PROGRESS.
C26_Witness ==
  \E p \in Pollers, j \in DOMAIN tokens :
    /\ ReturnedFrom(p, j)
    /\ poller[p].jobStatus = "IN_PROGRESS"
    /\ resp[p] = [status |-> "IN_PROGRESS", attempt |-> 2, maxAttempts |-> 2]
    /\ jobs[j].completionPolls = 3

\* C27: with Polls one at a time, a Poll that was answered FAILED by the job
\* check writes the token status FAILED, then issues SendTaskFailure with
\* error JobFailed, and returns { status: FAILED }; no other resume call is
\* issued for the token.
C27_FailedJob ==
  \A p \in Pollers, j \in DOMAIN tokens :
    poller[p].jobId = j =>
      /\ poller[p].jobStatus = "FAILED" =>
           /\ poller[p].pc \in {"markFailed", "sendFailed"}
           /\ CallsFor(j) = <<>>
      /\ poller[p].pc = "sendFailed" => tokens[j].status = "FAILED"
      /\ (poller[p].pc = "returned" /\ resp[p].status = "FAILED" /\ nGate[j] = nPolls[j]) =>
           /\ resp[p] = [status |-> "FAILED"]
           /\ tokens[j].status = "FAILED"
           /\ CallsFor(j) = <<SendTaskFailure(tokens[j].taskToken, "JobFailed")>>

\* A Poll has returned FAILED after the job check reported the job FAILED on
\* the second attempt.
C27_Witness ==
  \E p \in Pollers, j \in DOMAIN tokens :
    /\ poller[p].jobId = j /\ poller[p].pc = "returned"
    /\ resp[p].status = "FAILED"
    /\ nGate[j] = nPolls[j]
    /\ tokens[j].attemptCount = 2
    /\ Len(CallsFor(j)) = 1

\* C28: a token for which SendTaskSuccess has been issued is stored COMPLETED,
\* and a token for which SendTaskFailure has been issued is stored FAILED or
\* MAX_ATTEMPTS, in every state after the call.
C28_ResumeAgreesWithStatus ==
  \A j \in DOMAIN tokens : \A i \in ResumesFor(j) :
    /\ sfnCalls[i].command = "SendTaskSuccess" => tokens[j].status = "COMPLETED"
    /\ sfnCalls[i].command = "SendTaskFailure" => tokens[j].status \in {"FAILED", "MAX_ATTEMPTS"}

C30_CheckStatusAdvances ==
  [][\A p \in Pollers :
       LET j == poller[p].jobId IN
       /\ (poller[p].pc = "updatePollCount" /\ poller'[p].pc # "updatePollCount"
             /\ resp'[p] # Thrown) =>
            /\ jobs'[j].pollCount = jobs[j].pollCount + 1
            /\ jobs[j].status = "COMPLETED" => poller'[p].pc = "markJobCompleted"
       /\ (poller[p].pc = "markJobCompleted" /\ poller'[p].pc # "markJobCompleted"
             /\ resp'[p] # Thrown) =>
            /\ poller'[p].jobStatus = "COMPLETED"
            /\ jobs'[j].status = "COMPLETED"
            /\ jobs'[j].pollCount = jobs[j].pollCount]_vars

\* A checkStatus call on a job already COMPLETED has answered COMPLETED and
\* left pollCount one past completionPolls.
C30_Witness ==
  \E p \in Pollers :
    /\ poller[p].pc = "markCompleted"
    /\ poller[p].jobStatus = "COMPLETED"
    /\ jobs[poller[p].jobId].pollCount = jobs[poller[p].jobId].completionPolls + 1

\* C31: a direct checkStatus for a jobId with no Job record, a CHECK_STATUS
\* request without a jobId, and a request with an unknown action each end at
\* once with an { error } answer and leave the Job Store as it was.
C31_ErrorRequestsLeaveStore ==
  [][(api.pc = "idle" /\ api'.pc # "idle") =>
       LET action == api'.action
           jobId == api'.jobId
       IN (\/ action = "CHECK_STATUS" /\ jobId = Undefined
           \/ action = "CHECK_STATUS" /\ jobId \notin DOMAIN jobs
           \/ action \notin {"CREATE_JOB", "CHECK_STATUS"})
          => /\ api'.pc = "answered"
             /\ DOMAIN api'.answer = {"error"}
             /\ jobs' = jobs]_vars

\* checkStatus has answered Job not found for an unknown jobId while another
\* job is stored and has been checked.
C31_Witness ==
  /\ api.pc = "answered"
  /\ api.action = "CHECK_STATUS"
  /\ api.jobId = UnknownJobId
  /\ api.answer = [error |-> "Job not found"]
  /\ \E j \in DOMAIN jobs : jobs[j].pollCount >= 1
\* C32: every Job's completionPolls is 2 or 3 from the step that stores the
\* Job, and no later step of a checkStatus or a Poll changes it.
C32_CompletionPollsFixed ==
  [][\A j \in DOMAIN jobs' :
       /\ jobs'[j].completionPolls \in {2, 3}
       /\ j \in DOMAIN jobs => jobs'[j].completionPolls = jobs[j].completionPolls]_vars

\* A job with threshold 3 has been checked past its threshold and its token
\* is COMPLETED.
C32_Witness ==
  \E j \in DOMAIN tokens :
    /\ jobs[j].completionPolls = 3
    /\ jobs[j].pollCount >= 3
    /\ jobs[j].status = "COMPLETED"
    /\ tokens[j].status = "COMPLETED"
\* C33: once a token is stored terminal, no resume call has been issued for
\* it and no Poll for its jobId is in flight (the Poll that stored the status
\* failed before its resume call went through), it stays so: the record is
\* never written again, no resume call is ever issued for it, and every Poll
\* that starts for that jobId ends at the gate with the stored status.
C33_TerminalUnnotifiedStays ==
  [][\A j \in DOMAIN tokens :
       (/\ tokens[j].status \in TerminalStatuses
        /\ ResumesFor(j) = {}
        /\ ActiveOn(j) = {})
       => /\ tokens'[j] = tokens[j]
          /\ \A i \in 1..Len(sfnCalls') : sfnCalls'[i].taskToken # tokens[j].taskToken
          /\ \A p \in Pollers :
               /\ poller'[p].jobId = j => poller'[p].pc \in {"idle", "returned"}
               /\ (poller[p].pc = "idle" /\ poller'[p].pc # "idle" /\ poller'[p].jobId = j)
                    => /\ resp'[p] = [status |-> tokens[j].status]
                       /\ UNCHANGED <<jobs, nGate, nCheck>>]_vars

\* A Poll died between storing COMPLETED and its SendTaskSuccess, and a later
\* Poll has returned COMPLETED through the gate with no resume call issued.
C33_Witness ==
  \E j \in DOMAIN tokens, p \in Pollers :
    /\ tokens[j].status = "COMPLETED"
    /\ ResumesFor(j) = {}
    /\ ActiveOn(j) = {}
    /\ poller[p].pc = "returned" /\ poller[p].jobId = j
    /\ resp[p] = [status |-> "COMPLETED"]
\* The simulated API's answer to a job check that carries no status.
IsErrorAnswer(jobStatus) == jobStatus \in {ErrorAnswer("Job not found"), ErrorAnswer("store")}

\* C34: with Polls one at a time, a Poll whose job check was answered with an
\* error value goes straight to its return, with { IN_PROGRESS, attempt,
\* maxAttempts } and its incremented attemptCount stored, leaves the token
\* POLLING and issues no resume call, so a token whose job was never counted
\* as polled is POLLING or MAX_ATTEMPTS; and when every job check of a token ended that way, the Poll
\* after the maxAttempts-th stores MAX_ATTEMPTS and issues
\* SendTaskFailure(MaxAttemptsExceeded), the only resume call for the token.
C34_ErrorAnswerIsInProgress ==
  \A j \in DOMAIN tokens :
    /\ \A p \in Pollers :
         (poller[p].jobId = j /\ IsErrorAnswer(poller[p].jobStatus)) => poller[p].pc = "returned"
    /\ jobs[j].pollCount = 0 => tokens[j].status \in {"POLLING", "MAX_ATTEMPTS"}
    /\ \A p \in Pollers :
         (ReturnedFrom(p, j) /\ IsErrorAnswer(poller[p].jobStatus)) =>
           /\ resp[p] = [status |-> "IN_PROGRESS", attempt |-> nGate[j],
                         maxAttempts |-> tokens[j].maxAttempts]
           /\ tokens[j].attemptCount = nGate[j]
           /\ tokens[j].status = "POLLING"
           /\ CallsFor(j) = <<>>
    /\ (ActiveOn(j) = {} /\ jobs[j].pollCount = 0 /\ nGate[j] = tokens[j].maxAttempts + 1) =>
           /\ nCheck[j] = tokens[j].maxAttempts
           /\ tokens[j].status = "MAX_ATTEMPTS"
           /\ CallsFor(j) = <<SendTaskFailure(tokens[j].taskToken, "MaxAttemptsExceeded")>>

\* Both job checks of a token with maxAttempts 2 were answered with a store
\* error and the third Poll has returned MAX_ATTEMPTS.
C34_Witness ==
  \E j \in DOMAIN tokens, p \in Pollers :
    /\ tokens[j].maxAttempts = 2
    /\ jobs[j].pollCount = 0
    /\ nCheck[j] = 2
    /\ ReturnedFrom(p, j)
    /\ resp[p] = [status |-> "MAX_ATTEMPTS"]
    /\ Len(CallsFor(j)) = 1
\* C35: with the simulated API of this repository, in every reachable state
\* every Job status is IN_PROGRESS or COMPLETED, every TaskToken status is
\* POLLING, COMPLETED or MAX_ATTEMPTS, and every SendTaskFailure issued
\* carries the error MaxAttemptsExceeded.
C35_FailedNeverProduced ==
  /\ \A j \in DOMAIN jobs : jobs[j].status \in {"IN_PROGRESS", "COMPLETED"}
  /\ \A j \in DOMAIN tokens : tokens[j].status \in {"POLLING", "COMPLETED", "MAX_ATTEMPTS"}
  /\ \A i \in 1..Len(sfnCalls) :
       sfnCalls[i].command = "SendTaskFailure" => sfnCalls[i].error = "MaxAttemptsExceeded"

\* The job completed, the Poll that saw it died before marking the token, and
\* the token ran out of attempts and was resumed with a failure.
C35_Witness ==
  \E j \in DOMAIN tokens :
    /\ jobs[j].status = "COMPLETED"
    /\ tokens[j].status = "MAX_ATTEMPTS"
    /\ ActiveOn(j) = {}
    /\ \E i \in ResumesFor(j) : sfnCalls[i].command = "SendTaskFailure"
\* C36: under every interleaving of Polls, a TaskToken stored COMPLETED has
\* its Job stored COMPLETED, a Poll is on its way to SendTaskSuccess only
\* when the Job is stored COMPLETED, and every SendTaskSuccess issued is for
\* a token whose Job is stored COMPLETED.
C36_TokenCompletedAfterJob ==
  \A j \in DOMAIN tokens :
    /\ tokens[j].status = "COMPLETED" => jobs[j].status = "COMPLETED"
    /\ \A p \in Pollers :
         (poller[p].jobId = j /\ poller[p].pc \in {"markCompleted", "sendSuccess"})
           => jobs[j].status = "COMPLETED"
    /\ \A i \in ResumesFor(j) :
         sfnCalls[i].command = "SendTaskSuccess" => jobs[j].status = "COMPLETED"

\* Two overlapping Polls have each been answered COMPLETED and each issued
\* SendTaskSuccess for the token.
C36_Witness ==
  \E j \in DOMAIN tokens :
    /\ tokens[j].status = "COMPLETED"
    /\ Len(CallsFor(j)) = 2
    /\ \A i \in ResumesFor(j) : sfnCalls[i].command = "SendTaskSuccess"
\* C37: with Polls one at a time, no failure and checkStatus invoked by the
\* Poller only, between Polls the Job's pollCount equals the smaller of the
\* token's attemptCount and maxAttempts, and a Poll that has passed the
\* max-attempts check makes its job check with attemptCount one ahead of
\* pollCount.
C37_PollCountTracksAttempts ==
  \A j \in DOMAIN tokens :
    LET a == tokens[j].attemptCount
        M == tokens[j].maxAttempts
    IN /\ ActiveOn(j) = {} => jobs[j].pollCount = IF a < M THEN a ELSE M
       /\ \A p \in Pollers :
            (poller[p].jobId = j /\ poller[p].pc = "checkStatus")
              => (a = jobs[j].pollCount + 1 /\ a <= M)

\* A token with maxAttempts 2 on a job with threshold 3 has run out of
\* attempts: attemptCount is 3 and pollCount 2.
C37_Witness ==
  \E j \in DOMAIN tokens :
    /\ ActiveOn(j) = {}
    /\ tokens[j].maxAttempts = 2
    /\ tokens[j].attemptCount = 3
    /\ jobs[j].pollCount = 2
    /\ jobs[j].completionPolls = 3
HasUploadKeyForm(key) ==
  /\ Len(key) >= 4
  /\ key[1] = "uploads" /\ key[2] = "/" /\ key[3] # "/"
  /\ \E i \in 4..Len(key) : key[i] = "/"

RECURSIVE Concat(_)
Concat(pieces) == IF pieces = << >> THEN "" ELSE Head(pieces) \o Concat(Tail(pieces))

\* The {uploadId} of a key of that form.
KeyUploadId(key) ==
  LET i == CHOOSE i \in 4..Len(key) : key[i] = "/" /\ \A k \in 3..(i - 1) : key[k] # "/"
  IN Concat(SubSeq(key, 3, i - 1))

====
